---- MODULE Spec2Model ----
(***************************************************************************)
(* Spectral normalization (lib/spectral_norm.py): the SpectralNorm hook,   *)
(* its attach (apply / inplace_spectral_norm), power iteration             *)
(* (compute_weight), forward pre-hook (__call__) and removal               *)
(* (remove / remove_spectral_norm), on one host layer.                     *)
(*                                                                         *)
(* Numbers.  The code computes with floating-point tensors; the model      *)
(* computes with exact reals of the form  sgn * sqrt(n / d)  (n, d         *)
(* naturals), which is the set closed under everything the code does to    *)
(* integer-valued weights: matrix-vector products, L2 norms, division by a *)
(* norm, by eps and by sigma.  A scalar with d = 0 stands for a non-finite *)
(* value (inf or nan, the result of a division by zero), which every later *)
(* operation propagates.  Weights are 2-D tensors.                         *)
(***************************************************************************)
EXTENDS Integers, Sequences, FiniteSets, TLC

(***************************************************************************)
(* Bounds of the model.                                                    *)
(***************************************************************************)
\* calls made on the layer in one run
MaxCalls == 4
\* power-iteration steps run on one name between its attach and its remove
MaxIters == 2

(***************************************************************************)
(* Exact scalars  sgn * sqrt(n / d).                                       *)
(***************************************************************************)
RECURSIVE GCD(_, _)
GCD(a, b) == IF b = 0 THEN a ELSE GCD(b, a % b)

Abs(x) == IF x < 0 THEN -x ELSE x

Sign(x) == IF x < 0 THEN -1 ELSE IF x = 0 THEN 0 ELSE 1

NonFinite == [sgn |-> 0, n |-> 0, d |-> 0]

Zero == [sgn |-> 0, n |-> 0, d |-> 1]

One == [sgn |-> 1, n |-> 1, d |-> 1]

IsFinite(s) == s.d # 0

\* the scalar sgn * sqrt(n / d) in lowest terms
Scalar(sgn, n, d) ==
    IF d = 0 THEN NonFinite
    ELSE IF sgn = 0 \/ n = 0 THEN Zero
    ELSE LET g == GCD(n, d) IN [sgn |-> sgn, n |-> n \div g, d |-> d \div g]

FromInt(k) == Scalar(Sign(k), k * k, 1)

Mul(a, b) ==
    IF ~IsFinite(a) \/ ~IsFinite(b) THEN NonFinite
    ELSE IF a.sgn = 0 \/ b.sgn = 0 THEN Zero
    ELSE LET g1 == GCD(a.n, b.d)
             g2 == GCD(b.n, a.d)
         IN  Scalar(a.sgn * b.sgn, (a.n \div g1) * (b.n \div g2),
                    (a.d \div g2) * (b.d \div g1))

\* a / b; a division by zero gives inf or nan
Div(a, b) ==
    IF ~IsFinite(a) \/ ~IsFinite(b) \/ b.sgn = 0 THEN NonFinite
    ELSE Mul(a, [sgn |-> b.sgn, n |-> b.d, d |-> b.n])

\* a >= b for finite a, b >= 0; a comparison with nan is false
Geq(a, b) == IsFinite(a) /\ IsFinite(b) /\ a.n * b.d >= b.n * a.d

(***************************************************************************)
(* Tensors: an integer tensor num times a scalar sc, in canonical form     *)
(* (sc > 0 and the entries of num coprime; the zero tensor has sc = One;   *)
(* a non-finite tensor has sc = NonFinite and its entries blanked), so     *)
(* that two tensors are equal as values iff they are equal as records.     *)
(* A vector's num is a sequence of integers, a matrix's a sequence of rows.*)
(***************************************************************************)
RECURSIVE GcdSeq(_)
GcdSeq(s) == IF s = <<>> THEN 0 ELSE GCD(Abs(Head(s)), GcdSeq(Tail(s)))

RECURSIVE SumSeq(_)
SumSeq(s) == IF s = <<>> THEN 0 ELSE Head(s) + SumSeq(Tail(s))

RECURSIVE Flatten(_)
Flatten(rows) == IF rows = <<>> THEN <<>> ELSE Head(rows) \o Flatten(Tail(rows))

DotInt(x, y) == SumSeq([i \in 1..Len(x) |-> x[i] * y[i]])

SumSq(x) == DotInt(x, x)

Vec(num, sc) ==
    LET g == GcdSeq(num) IN
    IF ~IsFinite(sc) THEN [num |-> [i \in 1..Len(num) |-> 0], sc |-> NonFinite]
    ELSE IF g = 0 \/ sc.sgn = 0 THEN [num |-> [i \in 1..Len(num) |-> 0], sc |-> One]
    ELSE [num |-> [i \in 1..Len(num) |-> sc.sgn * (num[i] \div g)],
          sc  |-> Mul(Scalar(1, sc.n, sc.d), FromInt(g))]

Mat(num, sc) ==
    LET g == GcdSeq(Flatten(num))
        blank == [i \in 1..Len(num) |-> [j \in 1..Len(num[i]) |-> 0]]
    IN
    IF ~IsFinite(sc) THEN [num |-> blank, sc |-> NonFinite]
    ELSE IF g = 0 \/ sc.sgn = 0 THEN [num |-> blank, sc |-> One]
    ELSE [num |-> [i \in 1..Len(num) |->
                     [j \in 1..Len(num[i]) |-> sc.sgn * (num[i][j] \div g)]],
          sc  |-> Mul(Scalar(1, sc.n, sc.d), FromInt(g))]

\* Tensor.size(dim) of a 2-D tensor
Size(W, dim) == IF dim = 0 THEN Len(W.num) ELSE Len(W.num[1])

\* Tensor.numel()
Numel(W) == Len(Flatten(W.num))

Transpose(W) ==
    [num |-> [j \in 1..Len(W.num[1]) |-> [i \in 1..Len(W.num) |-> W.num[i][j]]],
     sc  |-> W.sc]

\* torch.matmul(M, x) for a matrix M and a vector x
MatMul(M, x) ==
    Vec([i \in 1..Len(M.num) |-> DotInt(M.num[i], x.num)], Mul(M.sc, x.sc))

\* torch.dot(x, y)
Dot(x, y) == Mul(Mul(x.sc, y.sc), FromInt(DotInt(x.num, y.num)))

\* the L2 norm of a vector
Norm(x) == IF ~IsFinite(x.sc) THEN NonFinite
           ELSE Mul(x.sc, Scalar(1, SumSq(x.num), 1))

\* a slip: clamp_max for clamp_min
ClampMin_Max(s, eps) == IF ~IsFinite(s) THEN NonFinite ELSE IF Geq(s, eps) THEN eps ELSE s

\* Tensor.clamp_min(eps)
ClampMin(s, eps) == IF ~IsFinite(s) THEN NonFinite ELSE IF Geq(s, eps) THEN s ELSE eps

\* torch.nn.functional.normalize(x, dim=0, eps=eps): x / max(||x||, eps)
Normalize(x, eps) == Vec(x.num, Div(x.sc, ClampMin(Norm(x), eps)))

(***************************************************************************)
(* The host layer (torch.nn.Module): its attribute tables.  An attribute   *)
(* key is <<name, suffix>>, standing for the attribute name + suffix.      *)
(***************************************************************************)
Names == {"weight", "proj"}

Key(name, suffix) == <<name, suffix>>

Drop(f, k) == [x \in DOMAIN f \ {k} |-> f[x]]

Put(f, k, v) == [x \in DOMAIN f \cup {k} |-> IF x = k THEN v ELSE f[x]]

\* hasattr(module, key)
HasAttr(m, k) == k \in DOMAIN m.p \/ k \in DOMAIN m.b

\* getattr(module, key)
GetAttr(m, k) == IF k \in DOMAIN m.p THEN m.p[k] ELSE m.b[k]

\* delattr(module, key)
DelAttr(m, k) ==
    IF k \in DOMAIN m.p THEN [m EXCEPT !.p = Drop(m.p, k)]
    ELSE [m EXCEPT !.b = Drop(m.b, k), !.g = m.g \ {k}]

\* module.register_parameter(key, value): a fresh leaf
RegisterParameter(m, k, v) == [m EXCEPT !.p = Put(m.p, k, v), !.g = m.g \ {k}]

\* module.register_buffer(key, value)
RegisterBuffer(m, k, v) == [m EXCEPT !.b = Put(m.b, k, v)]

\* setattr(module, key, tensor) on a key held in _buffers; tracked tells
\* whether the tensor carries an autograd graph
SetAttr(m, k, v, tracked) ==
    [m EXCEPT !.b = Put(m.b, k, v),
              !.g = IF tracked THEN m.g \cup {k} ELSE m.g \ {k}]

(***************************************************************************)
(* The inputs.                                                             *)
(***************************************************************************)
Tensor2D(rows) == Mat(rows, One)

Layer(k, ps) == [kind |-> k, params |-> ps]

OneParam(w) == Key("weight", "") :> Tensor2D(w)

TwoParams(w, p) == (Key("weight", "") :> Tensor2D(w)) @@ (Key("proj", "") :> Tensor2D(p))

\* the layers: their class and their parameters when they are built
Layers ==
    { Layer("Linear", OneParam(<< <<1, 1>>, <<0, 1>> >>)),
      Layer("ConvTranspose1d", OneParam(<< <<1, 2>> >>)),
      Layer("ConvTranspose2d", TwoParams(<< <<2>> >>, << <<0>> >>)),
      Layer("ConvTranspose3d", OneParam(<< <<2, 0>>, <<0, 1>> >>)) }

\* the eps arguments: eps = 1/10, held as sqrt(1/100)
EpsChoices == { Scalar(1, 1, 100) }

\* weight.new_empty(height).normal_(0, 1): the draws of u, one of them of
\* norm 1/100, below eps
SamplesU(len) ==
    IF len = 1
    THEN { Vec(<<1>>, One), Vec(<<1>>, Scalar(1, 1, 10000)) }
    ELSE { Vec(<<1, 0>>, One), Vec(<<0, 1>>, Scalar(1, 1, 10000)) }

\* weight.new_empty(numel / height).normal_(0, 1): the draws of v
SamplesV(len) ==
    IF len = 1 THEN { Vec(<<1>>, One) } ELSE { Vec(<<1, 1>>, One) }

\* dim=None
NoDim == -1

Dims == {NoDim, 0, 1}

ConvTransposeKinds == {"ConvTranspose1d", "ConvTranspose2d", "ConvTranspose3d"}

(***************************************************************************)
(* State.                                                                  *)
(***************************************************************************)
VARIABLES
    kind,                \* the layer's class
    training,            \* module.training
    params,              \* module._parameters: key -> tensor
    buffers,             \* module._buffers: key -> tensor
    graph,               \* keys whose tensor carries an autograd graph
    hooks,               \* module._forward_pre_hooks, in registration order
    power_iteration_fn,  \* the attribute POWER_ITERATION_FN: <<>> or <<fn>>
    next_id,             \* the next hook handle id
    result,              \* the last call's outcome: what it returned or raised
    calls,               \* the calls made so far
    history              \* per attached name: the draws and the steps run

vars == <<kind, training, params, buffers, graph, hooks, power_iteration_fn,
          next_id, result, calls, history>>

Module == [p |-> params, b |-> buffers, g |-> graph]

Init ==
    /\ \E layer \in Layers :
          /\ kind = layer.kind
          /\ params = layer.params
    /\ training = TRUE
    /\ buffers = << >>
    /\ graph = {}
    /\ hooks = << >>
    /\ power_iteration_fn = << >>
    /\ next_id = 0
    /\ result = "module"
    /\ calls = 0
    /\ history = << >>

(***************************************************************************)
(* SpectralNorm: the hook object fn = [name, dim, eps].                    *)
(***************************************************************************)
SpectralNorm(name, dim, eps) == [name |-> name, dim |-> dim, eps |-> eps]

\* a slip: the check off by one
IterationCountRejected_OffByOne(k) == k < -1

\* compute_weight: the check of n_power_iterations
IterationCountRejected(k) == k < 0

\* compute_weight: weight_mat, the chosen dimension permuted to the front
\* and the rest flattened
WeightMat(fn, weight) == IF fn.dim # 0 THEN Transpose(weight) ELSE weight

\* compute_weight: one pass of the loop body
PowerStep(weight_mat, uv, eps) ==
    LET v == Normalize(MatMul(Transpose(weight_mat), uv.u), eps)
        u == Normalize(MatMul(weight_mat, v), eps)
    IN  [u |-> u, v |-> v]

\* compute_weight: for _ in range(n_power_iterations)
RECURSIVE PowerIteration(_, _, _, _)
PowerIteration(weight_mat, uv, k, eps) ==
    IF k <= 0 THEN uv
    ELSE PowerIteration(weight_mat, PowerStep(weight_mat, uv, eps), k - 1, eps)

\* compute_weight: sigma = u^T W v
Sigma(weight_mat, uv) == Dot(uv.u, MatMul(weight_mat, uv.v))

\* a slip: the refined vectors are dropped, the old ones stored back
StoredBack_Stale(uv0, uv) == uv0

\* compute_weight: what it stores back as name_u and name_v
StoredBack(uv0, uv) == uv

\* compute_weight: the public weight, weight / sigma
Rescaled(weight, sigma) == Mat(weight.num, Div(weight.sc, sigma))

\* compute_weight(module, n_power_iterations): the outcome and the module
ComputeWeight(fn, m, k) ==
    IF IterationCountRejected(k) THEN [result |-> "ValueError: negative n_power_iterations", m |-> m]
    ELSE IF ~HasAttr(m, Key(fn.name, "_orig")) \/ ~HasAttr(m, Key(fn.name, "_u"))
            \/ ~HasAttr(m, Key(fn.name, "_v"))
    THEN [result |-> "AttributeError", m |-> m]
    ELSE
        LET weight == GetAttr(m, Key(fn.name, "_orig"))
            uv0 == [u |-> GetAttr(m, Key(fn.name, "_u")),
                    v |-> GetAttr(m, Key(fn.name, "_v"))]
            weight_mat == WeightMat(fn, weight)
            uv == StoredBack(uv0, PowerIteration(weight_mat, uv0, k, fn.eps))
            m1 == SetAttr(m, Key(fn.name, "_u"), uv.u, FALSE)
            m2 == SetAttr(m1, Key(fn.name, "_v"), uv.v, FALSE)
            sigma == Sigma(weight_mat, uv)
        IN  [result |-> "None",
             m |-> SetAttr(m2, Key(fn.name, ""), Rescaled(weight, sigma), TRUE)]

\* a slip: the pre-hook refines by one step
HookIterations_One == 0 + 1

\* __call__: the iteration count the forward pre-hook passes
HookIterations == 0

\* __call__(module, unused_inputs)
Call(fn, m, mode) ==
    LET m1 == ComputeWeight(fn, m, HookIterations).m IN
    IF ~mode
    THEN SetAttr(m1, Key(fn.name, ""), GetAttr(m1, Key(fn.name, "")), FALSE)
    ELSE m1

\* a slip: the unnormalized original registered back
RemovedWeight_Orig(fn, m) == GetAttr(m, Key(fn.name, "_orig"))

\* remove: the tensor registered back as the parameter
RemovedWeight(fn, m) == GetAttr(m, Key(fn.name, ""))

\* remove: the attributes it deletes
RemovedKeys(fn) == << Key(fn.name, ""), Key(fn.name, "_u"), Key(fn.name, "_orig") >>

RECURSIVE DelAttrs(_, _)
DelAttrs(m, keys) ==
    IF keys = << >> THEN m ELSE DelAttrs(DelAttr(m, Head(keys)), Tail(keys))

\* remove(module)
Remove(fn, m) ==
    RegisterParameter(DelAttrs(m, RemovedKeys(fn)), Key(fn.name, ""), RemovedWeight(fn, m))

\* a slip: weight = getattr(module, name), which finds buffers too
ParameterLookup_GetAttr(m, name) ==
    IF HasAttr(m, Key(name, "")) THEN << GetAttr(m, Key(name, "")) >> ELSE << >>

\* apply: weight = module._parameters[name]; << >> stands for the KeyError
ParameterLookup(m, name) ==
    IF Key(name, "") \in DOMAIN m.p THEN << m.p[Key(name, "")] >> ELSE << >>

\* a slip: the original registered as a buffer, not as a parameter
Apply_OrigAsBuffer(fn, m, su, sv) ==
    LET weight == m.p[Key(fn.name, "")]
        m1 == DelAttr(m, Key(fn.name, ""))
        m2 == RegisterBuffer(m1, Key(fn.name, "_orig"), weight)
        m3 == RegisterBuffer(m2, Key(fn.name, ""), weight)
        m4 == RegisterBuffer(m3, Key(fn.name, "_u"), Normalize(su, fn.eps))
    IN  RegisterBuffer(m4, Key(fn.name, "_v"), Normalize(sv, fn.eps))

\* apply: the attribute tables after the attach
Apply(fn, m, su, sv) ==
    LET weight == ParameterLookup(m, fn.name)[1]
        u == Normalize(su, fn.eps)
        v == Normalize(sv, fn.eps)
        m1 == DelAttr(m, Key(fn.name, ""))
        m2 == RegisterParameter(m1, Key(fn.name, "_orig"), weight)
        m3 == RegisterBuffer(m2, Key(fn.name, ""), weight)
        m4 == RegisterBuffer(m3, Key(fn.name, "_u"), u)
    IN  RegisterBuffer(m4, Key(fn.name, "_v"), v)

\* a slip: the transposed-convolution case forgotten
DefaultDim_Zero(k) == 0

\* inplace_spectral_norm: the dimension used when dim is None
DefaultDim(k) == IF k \in ConvTransposeKinds THEN 1 ELSE 0

\* inplace_spectral_norm: the dimension handed to apply
ResolveDim(k, dim) == IF dim = NoDim THEN DefaultDim(k) ELSE dim

\* a slip: the name not compared
HookMatches_AnyName(hook, name) == hook.fn.name \in Names

\* remove_spectral_norm: isinstance(hook, SpectralNorm) and hook.name == name
HookMatches(hook, name) == hook.fn.name = name

\* remove_spectral_norm: the position of the first matching hook, 0 if none
FirstMatch(hs, name) ==
    IF \E i \in 1..Len(hs) : HookMatches(hs[i], name)
    THEN CHOOSE i \in 1..Len(hs) :
            /\ HookMatches(hs[i], name)
            /\ \A j \in 1..(i - 1) : ~HookMatches(hs[j], name)
    ELSE 0

RemoveAt(s, i) == SubSeq(s, 1, i - 1) \o SubSeq(s, i + 1, Len(s))

\* Module.__call__: every forward pre-hook, in registration order
RECURSIVE RunHooks(_, _, _)
RunHooks(hs, m, mode) ==
    IF hs = << >> THEN m ELSE RunHooks(Tail(hs), Call(Head(hs).fn, m, mode), mode)

(***************************************************************************)
(* Operations.                                                             *)
(***************************************************************************)
\* one more call on the layer, within the bound
Tick ==
    /\ calls < MaxCalls
    /\ calls' = calls + 1

SetModule(m) ==
    /\ params' = m.p
    /\ buffers' = m.b
    /\ graph' = m.g

\* history: what has happened to a name since its attach: the dim argument,
\* the two draws, the power-iteration steps run, the calls that ran at least
\* one step, whether the pre-hook ran, whether the weight was recomputed
Attached(dim, su, sv) ==
    [dim |-> dim, u |-> su, v |-> sv, steps |-> 0, passes |-> 0,
     hooked |-> FALSE, computed |-> FALSE]

Refined(h, k) ==
    [h EXCEPT !.steps = @ + k, !.passes = IF k > 0 THEN @ + 1 ELSE @,
              !.computed = TRUE]

Hooked(h) == [h EXCEPT !.hooked = TRUE, !.computed = TRUE]

\* inplace_spectral_norm(module, name, dim, eps)
InplaceSpectralNorm(name, dim, eps) ==
    LET d == ResolveDim(kind, dim)
        fn == SpectralNorm(name, d, eps)
    IN
    /\ Tick
    /\ IF ParameterLookup(Module, name) = << >>
       THEN /\ result' = "KeyError"
            /\ UNCHANGED <<kind, training, params, buffers, graph, hooks,
                           power_iteration_fn, next_id, history>>
       ELSE /\ LET weight == ParameterLookup(Module, name)[1]
                   height == Size(weight, d)
               IN  \E su \in SamplesU(height), sv \in SamplesV(Numel(weight) \div height) :
                     /\ SetModule(Apply(fn, Module, su, sv))
                     /\ history' = Put(history, name, Attached(dim, su, sv))
            /\ power_iteration_fn' = <<fn>>
            /\ hooks' = Append(hooks, [id |-> next_id, fn |-> fn])
            /\ next_id' = next_id + 1
            /\ result' = "module"
            /\ UNCHANGED <<kind, training>>

\* the steps a call may still run on name within the bound
Budget(name) == IF name \in DOMAIN history THEN MaxIters - history[name].steps ELSE MaxIters

Refine(fn, k) ==
    LET r == ComputeWeight(fn, Module, k) IN
    /\ SetModule(r.m)
    /\ history' = IF r.result = "None"
                  THEN [history EXCEPT ![fn.name] = Refined(@, k)]
                  ELSE history
    /\ result' = r.result
    /\ UNCHANGED <<kind, training, hooks, power_iteration_fn, next_id>>

\* fn.compute_weight(module, k), called on a registered hook
ComputeWeightDirect(i, k) ==
    /\ Tick
    /\ i \in 1..Len(hooks)
    /\ k <= Budget(hooks[i].fn.name)
    /\ Refine(hooks[i].fn, k)

\* module.spectral_norm_power_iteration(k)
PowerIterationFn(k) ==
    /\ Tick
    /\ IF power_iteration_fn = << >>
       THEN /\ result' = "AttributeError"
            /\ UNCHANGED <<kind, training, params, buffers, graph, hooks,
                           power_iteration_fn, next_id, history>>
       ELSE /\ k <= Budget(power_iteration_fn[1].name)
            /\ Refine(power_iteration_fn[1], k)

\* module(inputs): the forward pre-hooks run
Forward ==
    /\ Tick
    /\ SetModule(RunHooks(hooks, Module, training))
    /\ result' = "output"
    /\ history' = [n \in DOMAIN history |-> Hooked(history[n])]
    /\ UNCHANGED <<kind, training, hooks, power_iteration_fn, next_id>>

\* remove_spectral_norm(module, name)
RemoveSpectralNorm(name) ==
    LET i == FirstMatch(hooks, name) IN
    /\ Tick
    /\ IF i = 0
       THEN /\ result' = "ValueError: not found"
            /\ UNCHANGED <<kind, training, params, buffers, graph, hooks,
                           power_iteration_fn, next_id, history>>
       ELSE /\ SetModule(Remove(hooks[i].fn, Module))
            /\ hooks' = RemoveAt(hooks, i)
            /\ history' = Drop(history, hooks[i].fn.name)
            /\ result' = "module"
            /\ UNCHANGED <<kind, training, power_iteration_fn, next_id>>

\* module.train(mode), module.eval()
Train(mode) ==
    /\ Tick
    /\ mode # training
    /\ training' = mode
    /\ result' = "module"
    /\ UNCHANGED <<kind, params, buffers, graph, hooks, power_iteration_fn,
                   next_id, history>>

Next ==
    \/ \E name \in Names, dim \in Dims, eps \in EpsChoices :
          InplaceSpectralNorm(name, dim, eps)
    \/ \E i \in 1..Len(hooks), k \in -2..MaxIters : ComputeWeightDirect(i, k)
    \/ \E k \in -2..MaxIters : PowerIterationFn(k)
    \/ Forward
    \/ \E name \in Names : RemoveSpectralNorm(name)
    \/ \E mode \in BOOLEAN : Train(mode)

Spec == Init /\ [][Next]_vars

(***************************************************************************)
(* Properties.                                                             *)
(***************************************************************************)
\* the names with a registered pre-hook
HookNames == {hooks[i].fn.name : i \in 1..Len(hooks)}

\* the hook object registered for name
FnOf(n) == hooks[CHOOSE i \in 1..Len(hooks) : hooks[i].fn.name = n].fn

\* the carried vectors of name
CarriedUV(n) == [u |-> buffers[Key(n, "_u")], v |-> buffers[Key(n, "_v")]]

AuxKeys(n) == {Key(n, "_orig"), Key(n, "_u"), Key(n, "_v")}

Root(n) == CHOOSE r \in 0..n : r * r = n

\* | ||x|| - 1 | <= eps, for a rational eps
UnitNorm(x, eps) ==
    LET s == Norm(x)
        p == Root(eps.n)
        q == Root(eps.d)
    IN  /\ IsFinite(s)
        /\ s.n * q * q >= s.d * (q - p) * (q - p)
        /\ s.n * q * q <= s.d * (q + p) * (q + p)

\* a remove of name that succeeds
RemoveOk(n) == n \in HookNames /\ RemoveSpectralNorm(n) /\ result' = "module"

C2_RemoveDeletesAux ==
    \A n \in Names : n \notin HookNames =>
        /\ AuxKeys(n) \cap (DOMAIN params \cup DOMAIN buffers) = {}
        /\ Key(n, "") \notin DOMAIN buffers

\* C3: remove of a name with no registered pre-hook raises the not-found
\* ValueError and leaves parameters, buffers and hooks as they were.
C3_RemoveNotFound ==
    [][\A n \in Names : (n \notin HookNames /\ RemoveSpectralNorm(n)) =>
          /\ result' = "ValueError: not found"
          /\ UNCHANGED <<params, buffers, graph, hooks, power_iteration_fn>>]_vars

\* a remove failed while the pre-hook of another name was registered
C3_Witness ==
    /\ result = "ValueError: not found"
    /\ hooks # << >>
    /\ HookNames # Names

\* C4: a negative iteration count, passed to compute_weight or to the
\* power-iteration method, raises the ValueError and changes nothing.
C4_NegativeRejected ==
    [][\A k \in -2..-1 :
          (\/ \E i \in 1..Len(hooks) : ComputeWeightDirect(i, k)
           \/ (power_iteration_fn # << >> /\ PowerIterationFn(k))) =>
          /\ result' = "ValueError: negative n_power_iterations"
          /\ UNCHANGED <<params, buffers, graph, hooks, power_iteration_fn, history>>]_vars

\* a negative count was rejected on an attached, already recomputed weight
C4_Witness ==
    /\ result = "ValueError: negative n_power_iterations"
    /\ \E n \in HookNames : history[n].computed

\* C5: while the pre-hook of a name is registered, name_orig is a parameter
\* and the public name is not; name, name_u and name_v are buffers; the
\* power-iteration method exists; and exactly one pre-hook has that name.
C5_AttachedLayout ==
    \A n \in HookNames :
        /\ Key(n, "_orig") \in DOMAIN params
        /\ {Key(n, ""), Key(n, "_u"), Key(n, "_v")} \cap DOMAIN params = {}
        /\ {Key(n, ""), Key(n, "_u"), Key(n, "_v")} \subseteq DOMAIN buffers
        /\ Key(n, "_orig") \notin DOMAIN buffers
        /\ power_iteration_fn # << >>
        /\ Cardinality({i \in 1..Len(hooks) : hooks[i].fn.name = n}) = 1

\* a name that is attached, refined and run through the pre-hook
C5_Witness ==
    \E n \in HookNames : history[n].steps > 0 /\ history[n].hooked

\* C6: a forward call runs every pre-hook with no power-iteration step: the
\* parameters, u and v stay, the public weight becomes original / sigma(u, v),
\* and a second forward call would leave the buffers as the first left them.
C6_HookRescalesOnly ==
    [][Forward =>
          /\ params' = params
          /\ \A n \in HookNames :
                LET orig == params[Key(n, "_orig")]
                    sigma == Sigma(WeightMat(FnOf(n), orig), CarriedUV(n))
                IN  /\ buffers'[Key(n, "_u")] = buffers[Key(n, "_u")]
                    /\ buffers'[Key(n, "_v")] = buffers[Key(n, "_v")]
                    /\ buffers'[Key(n, "")] = Rescaled(orig, sigma)
          /\ RunHooks(hooks', Module', training').b = buffers']_vars

\* a forward call has rescaled the public weight of an attached name
C6_Witness ==
    /\ result = "output"
    /\ \E n \in HookNames : buffers[Key(n, "")] # params[Key(n, "_orig")]

\* C7 as claimed: in every state of an attached layer u and v have norm 1
\* within eps.
C7_AlwaysUnitNorm ==
    \A n \in HookNames :
        /\ UnitNorm(buffers[Key(n, "_u")], FnOf(n).eps)
        /\ UnitNorm(buffers[Key(n, "_v")], FnOf(n).eps)

\* the normalized draws of name, with which its u and v start
Start(n) ==
    [u |-> Normalize(history[n].u, FnOf(n).eps),
     v |-> Normalize(history[n].v, FnOf(n).eps)]

\* the vectors that went into the normalize calls that made the carried u
\* and v of name: the draws, or the last M^T u and M v
NormalizedFrom(n) ==
    LET fn == FnOf(n)
        weight_mat == WeightMat(fn, params[Key(n, "_orig")])
        before == PowerIteration(weight_mat, Start(n), history[n].steps - 1, fn.eps)
    IN  IF history[n].steps = 0
        THEN [u |-> history[n].u, v |-> history[n].v]
        ELSE [u |-> MatMul(weight_mat, buffers[Key(n, "_v")]),
              v |-> MatMul(Transpose(weight_mat), before.u)]

\* C7 amended: a vector comes out of normalize with norm 1 whenever the
\* vector that went in is finite with norm at least eps: so it is for the
\* two draws at attach and for the M^T u and M v of every power-iteration
\* step, and u and v have norm 1 in every state where what they were
\* normalized from has.
C7_UnitNormAboveEps ==
    \A n \in HookNames :
        /\ Geq(Norm(NormalizedFrom(n).u), FnOf(n).eps) =>
              UnitNorm(buffers[Key(n, "_u")], FnOf(n).eps)
        /\ Geq(Norm(NormalizedFrom(n).v), FnOf(n).eps) =>
              UnitNorm(buffers[Key(n, "_v")], FnOf(n).eps)

\* a power-iteration call has moved u and v, and both have norm 1
C7_Witness ==
    \E n \in HookNames :
        /\ history[n].steps > 0
        /\ buffers[Key(n, "_u")] # Normalize(history[n].u, FnOf(n).eps)
        /\ UnitNorm(buffers[Key(n, "_u")], FnOf(n).eps)
        /\ UnitNorm(buffers[Key(n, "_v")], FnOf(n).eps)

\* C8: an attach that goes through registers a hook whose dimension is the
\* one given, or, when none is given, 1 for the three transposed-convolution
\* classes and 0 for any other; and the call returns the layer.
C8_DefaultDimension ==
    [][\A n \in Names, dim \in Dims, eps \in EpsChoices :
          (Key(n, "") \in DOMAIN params /\ InplaceSpectralNorm(n, dim, eps)) =>
             /\ result' = "module"
             /\ Len(hooks') = Len(hooks) + 1
             /\ hooks'[Len(hooks')].fn.name = n
             /\ hooks'[Len(hooks')].fn.dim =
                   IF dim # NoDim THEN dim
                   ELSE IF kind \in {"ConvTranspose1d", "ConvTranspose2d", "ConvTranspose3d"}
                   THEN 1 ELSE 0
             /\ Len(buffers'[Key(n, "_u")].num) =
                   Size(params[Key(n, "")], hooks'[Len(hooks')].fn.dim)]_vars

\* a transposed-convolution layer attached with no dimension given
C8_Witness ==
    /\ kind \in ConvTransposeKinds
    /\ \E n \in HookNames : history[n].dim = NoDim /\ FnOf(n).dim = 1

\* C9: the carried u and v of an attached name are its normalized draws run
\* through as many steps as all the calls since the attach asked for, forward
\* calls in between or not (so calls of k1 and k2 steps leave what one call of
\* k1 + k2 steps leaves); and the last step made v from the u before it and
\* then u from that v.
C9_RefinesCarriedState ==
    \A n \in HookNames :
        LET fn == FnOf(n)
            weight_mat == WeightMat(fn, params[Key(n, "_orig")])
            steps == history[n].steps
            before == PowerIteration(weight_mat, Start(n), steps - 1, fn.eps)
            v == Normalize(MatMul(Transpose(weight_mat), before.u), fn.eps)
        IN  /\ CarriedUV(n) = PowerIteration(weight_mat, Start(n), steps, fn.eps)
            /\ steps > 0 =>
                  /\ buffers[Key(n, "_v")] = v
                  /\ buffers[Key(n, "_u")] = Normalize(MatMul(weight_mat, v), fn.eps)

\* two refining calls, a forward call among them, and u moved by each
C9_Witness ==
    \E n \in HookNames :
        /\ history[n].steps = 2
        /\ history[n].passes = 2
        /\ history[n].hooked
        /\ LET fn == FnOf(n)
               weight_mat == WeightMat(fn, params[Key(n, "_orig")])
               once == PowerIteration(weight_mat, Start(n), 1, fn.eps)
           IN  /\ once.u # Start(n).u
               /\ CarriedUV(n).u # once.u

\* C10: an attach on a name that is no parameter raises the KeyError and
\* changes nothing; and no name ever has two pre-hooks.
C10_AttachNeedsParameter ==
    [][/\ \A n \in Names, dim \in Dims, eps \in EpsChoices :
             (Key(n, "") \notin DOMAIN params /\ InplaceSpectralNorm(n, dim, eps)) =>
                /\ result' = "KeyError"
                /\ UNCHANGED <<params, buffers, graph, hooks, power_iteration_fn,
                               next_id, history>>
       /\ \A n \in Names :
             Cardinality({i \in 1..Len(hooks') : hooks'[i].fn.name = n}) <= 1]_vars

\* an attach failed on a layer all of whose names are attached already
C10_Witness ==
    /\ result = "KeyError"
    /\ HookNames = Names

====
